---- MODULE Spec2Model ----
(***************************************************************************)
(* Model of the IFC pipeline of AEC Axis.                                  *)
(*                                                                         *)
(* Worker (backend/app/worker.py): the SQS consumer loop                   *)
(* start_worker_loop, the per-file routine process_ifc_file, the persisted *)
(* IFCFile / Material rows and the queue the loop consumes.                *)
(*                                                                         *)
(* Services (backend/app/services): the upload orchestrator                *)
(* IFCService.process_ifc_upload_async, the storage backends S3IFCStorage  *)
(* and LocalIFCStorage, the processor IfcOpenShellProcessor and the        *)
(* WebhookNotifier, each behind the circuit breaker its instance builds.   *)
(* Every service has a specification of its own (SpecUpload, SpecS3,       *)
(* SpecLocal, SpecProcessor, SpecWebhook) over the shared variables.       *)
(***************************************************************************)
EXTENDS Integers, Sequences, FiniteSets, TLC

\* ------------------------------------------------------------------ bounds
MaxMsgs == 2
MaxRuns == 2

\* ------------------------------------------------------------ fixed inputs
Workers == {"w1", "w2"}
Files == {"f1", "f2"}
NoFile == "none"

\* number of IfcProduct entities ifc_model.by_type('IfcProduct') yields
Products == [f \in Files |-> IF f = "f1" THEN 2 ELSE 1]

\* exception classes the loop tells apart when an S3 / ifcopenshell /
\* conversion call fails (float("x") is a ValueError, float(None) is not)
ExcKinds == {"ValueError", "Exception"}

\* message bodies, by what json.loads / .get / uuid.UUID make of them
BodyKinds == {"not_json", "json_array", "no_id", "bad_uuid", "int_id", "valid"}
Bodies ==
  [kind : BodyKinds \ {"valid"}, id : {NoFile}] \cup [kind : {"valid"}, id : Files]

NoMsg == [kind |-> "none", id |-> NoFile]
\* calls of the worker that can raise
Faults ==
  [site : {"receive", "delete", "notify"}, kind : {"Exception"}]
    \cup [site : {"download", "open", "extract"}, kind : ExcKinds]
NoFailure == [site |-> "none", kind |-> "none"]
NoAttr == -1
Terminal == {"COMPLETED", "ERROR"}

VARIABLES
  status,      \* ifc_files.status as committed, "NONE" when the row is absent
  materials,   \* committed rows of the materials table
  doneRuns,    \* history: runs whose COMPLETED commit happened
  queue,       \* the messages held by the queue, each known by its body
  invisible,   \* messages received and still within their visibility timeout
  active,      \* the worker instances that are running
  sendable,    \* the bodies the producers of this deployment send
  faults,      \* the calls that can raise in this deployment, with the class raised
  pc,          \* position of each worker in start_worker_loop / process_ifc_file
  cur,         \* the message of the current loop iteration (NoMsg: none yet)
  fileId,      \* ifc_file_id parsed from the body
  loaded,      \* status of the row the query of process_ifc_file returned
               \* ("NONE": no row, or no query yet)
  run,         \* identifies the call of process_ifc_file
  added,       \* Material objects db.add()ed to the session, not yet flushed
  failure,     \* the exception raised inside the try block
  exc,         \* the exception that left process_ifc_file
  notes,       \* status notifications attempted in this call, with outcome
  emptyCount,  \* sqs_client._test_empty_count (NoAttr: attribute not set)
  lastErr,     \* call site of the last exception caught by the loop
  nextRun,
  upload,      \* IFCService.process_ifc_upload_async: the call in progress (or the
               \* last one) and the keys written through self.storage
  s3,          \* an S3IFCStorage instance, its bucket and its circuit breaker
  local,       \* a LocalIFCStorage instance and the directory tree under storage_path
  proc,        \* an IfcOpenShellProcessor instance, its storage and circuit breaker
  hook,        \* a WebhookNotifier instance, its endpoints and circuit breaker
  extraction,  \* the last per-element quantity extraction and the record it gave
  mock         \* the last MockIFCProcessor built, its process_file call and result

vars == <<status, materials, doneRuns, queue, invisible, active, sendable, faults, pc,
          cur,
          fileId, loaded, run, added, failure, exc, notes, emptyCount, lastErr,
          nextRun, upload, s3, local, proc, hook, extraction, mock>>

\* the state of the services under backend/app/services, untouched by the worker
svcVars == <<upload, s3, local, proc, hook, extraction, mock>>

\* the per-element extraction and the test double, which hold no shared state
pureVars == <<extraction, mock>>

CanFail(site) == \E x \in faults : x.site = site

Found(w) == loaded[w] # "NONE"

dbVars == <<status, materials, doneRuns>>
queueVars == <<queue, invisible>>
runVars == <<fileId, loaded, run, added, failure, exc, notes>>

\* ------------------------------------------------------------- pure parts

\* json.loads(body), message_data.get('ifc_file_id'), uuid.UUID(...)
ParseOutcome(b) ==
  CASE b.kind = "not_json"   -> "JSONDecodeError"
    [] b.kind = "json_array" -> "Exception"
    [] b.kind = "no_id"      -> "missing"
    [] b.kind = "bad_uuid"   -> "ValueError"
    [] b.kind = "int_id"     -> "Exception"
    [] OTHER                 -> "ok"

\* the except clause of the per-message try that takes an exception class
ExceptClause(k) ==
  CASE k = "JSONDecodeError" -> "del_malformed"
    [] k = "ValueError"      -> "del_invalid"
    [] OTHER                 -> "receive"

Malformed(b) == b.kind # "valid"

RecordsOf(f) == {r \in materials : r.file = f}
RecordsOfRun(n) == {r \in materials : r.run = n}
Flushed(w) == {[file |-> fileId[w], run |-> run[w], idx |-> i] : i \in 1..added[w]}

Visible == queue \ invisible

\* ------------------------------------------------------------ environment

\* a row of ifc_files is inserted with status PENDING
CreateFile(f) ==
  /\ status[f] = "NONE"
  /\ status' = [status EXCEPT ![f] = "PENDING"]
  /\ UNCHANGED <<svcVars, materials, doneRuns, queueVars, active, sendable, faults, pc, cur, runVars,
                 emptyCount, lastErr, nextRun>>

\* any producer puts a message on the queue
SendMessage(b) ==
  /\ b \in sendable
  /\ b \notin queue
  /\ Cardinality(queue) < MaxMsgs
  /\ queue' = queue \cup {b}
  /\ UNCHANGED <<svcVars, dbVars, invisible, active, sendable, faults, sendable, pc,
          cur, runVars, emptyCount,
                 lastErr, nextRun>>

\* the visibility timeout of a received, undeleted message expires
VisibilityTimeout(m) ==
  /\ m \in invisible
  /\ invisible' = invisible \ {m}
  /\ UNCHANGED <<svcVars, dbVars, queue, active, sendable, faults, pc, cur, runVars, emptyCount,
                 lastErr, nextRun>>

\* ------------------------------------------------------ start_worker_loop

\* the locals of one loop iteration are dead once the iteration is over
EndIteration(w, p) ==
  IF p = "receive"
    THEN /\ fileId' = [fileId EXCEPT ![w] = NoFile]
         /\ loaded' = [loaded EXCEPT ![w] = "NONE"]
         /\ run' = [run EXCEPT ![w] = 0]
         /\ added' = [added EXCEPT ![w] = 0]
         /\ failure' = [failure EXCEPT ![w] = NoFailure]
         /\ exc' = [exc EXCEPT ![w] = NoFailure]
         /\ notes' = [notes EXCEPT ![w] = <<>>]
    ELSE UNCHANGED runVars

\* where the loop goes after an exception it caught and logged
LoopOnErrorStops(site) == IF site = "delete" THEN "stopped" ELSE "receive"
LoopOnError(site) == "receive"

\* receive_message returns one message
ReceiveOk(w, m) ==
  /\ w \in active /\ pc[w] = "receive"
  /\ m \in Visible
  /\ nextRun <= MaxRuns
  /\ invisible' = invisible \cup {m}
  /\ cur' = [cur EXCEPT ![w] = m]
  /\ emptyCount' = [emptyCount EXCEPT ![w] = IF @ = NoAttr THEN NoAttr ELSE 0]
  /\ pc' = [pc EXCEPT ![w] = "parse"]
  /\ lastErr' = [lastErr EXCEPT ![w] = "none"]
  /\ UNCHANGED <<svcVars, dbVars, queue, active, sendable, faults, runVars, nextRun>>

\* receive_message returns no message
ReceiveEmpty(w) ==
  /\ w \in active /\ pc[w] = "receive"
  /\ Visible = {}
  /\ LET n == IF emptyCount[w] = NoAttr THEN 1 ELSE emptyCount[w] + 1
     IN /\ emptyCount' = [emptyCount EXCEPT ![w] = n]
        /\ pc' = [pc EXCEPT ![w] =
                    IF emptyCount[w] # NoAttr /\ n >= 2 THEN "stopped" ELSE "receive"]
  /\ UNCHANGED <<svcVars, dbVars, queueVars, active, sendable, faults, cur, runVars, lastErr, nextRun>>

\* receive_message raises
ReceiveRaises(w) ==
  /\ w \in active /\ pc[w] = "receive"
  /\ CanFail("receive")
  /\ lastErr' = [lastErr EXCEPT ![w] = "receive"]
  /\ pc' = [pc EXCEPT ![w] = LoopOnError("receive")]
  /\ UNCHANGED <<svcVars, dbVars, queueVars, active, sendable, faults, cur, runVars, emptyCount, nextRun>>

\* body = message['Body'] ... ifc_file_id = uuid.UUID(ifc_file_id_str)
ParseMessage(w) ==
  /\ w \in active /\ pc[w] = "parse"
  /\ LET o == ParseOutcome(cur[w])
     IN /\ pc' = [pc EXCEPT ![w] =
                    CASE o = "ok"      -> "find"
                      [] o = "missing" -> "receive"
                      [] OTHER         -> ExceptClause(o)]
        /\ fileId' = [fileId EXCEPT ![w] = IF o = "ok" THEN cur[w].id ELSE NoFile]
        /\ lastErr' = [lastErr EXCEPT ![w] =
                         IF o \in {"ok", "missing"} THEN @ ELSE "parse"]
  /\ UNCHANGED <<svcVars, dbVars, queueVars, active, sendable, faults, cur, loaded, run, added,
                 failure, exc, notes, emptyCount, nextRun>>

\* delete_message at any of its three call sites
DeleteMessage(w) ==
  /\ w \in active /\ pc[w] \in {"delete", "del_malformed", "del_invalid"}
  /\ \/ /\ queue' = queue \ {cur[w]}
        /\ invisible' = invisible \ {cur[w]}
        /\ pc' = [pc EXCEPT ![w] = "receive"]
        /\ UNCHANGED lastErr
     \/ /\ CanFail("delete")
        /\ lastErr' = [lastErr EXCEPT ![w] = "delete"]
        /\ pc' = [pc EXCEPT ![w] = LoopOnError("delete")]
        /\ UNCHANGED <<queue, invisible>>
  /\ EndIteration(w, pc'[w])
  /\ UNCHANGED <<svcVars, dbVars, active, sendable, faults, cur, emptyCount, nextRun>>

\* the except clauses of the per-message try, for an exception of
\* process_ifc_file; the finally clause closes the session
LoopExcept(w) ==
  /\ w \in active /\ pc[w] = "loop_except"
  /\ pc' = [pc EXCEPT ![w] = ExceptClause(exc[w].kind)]
  /\ lastErr' = [lastErr EXCEPT ![w] = "process"]
  /\ EndIteration(w, pc'[w])
  /\ UNCHANGED <<svcVars, dbVars, queueVars, active, sendable, faults, cur, emptyCount, nextRun>>

\* ------------------------------------------------------- process_ifc_file

\* db.query(IFCFile).filter(IFCFile.id == ifc_file_id).first(); return if absent
FindFileInverted(w) ==
  /\ w \in active /\ pc[w] = "find"
  /\ IF status[fileId[w]] # "NONE"
       THEN /\ pc' = [pc EXCEPT ![w] = "delete"]
            /\ loaded' = [loaded EXCEPT ![w] = status[fileId[w]]]
            /\ UNCHANGED <<run, nextRun>>
       ELSE /\ pc' = [pc EXCEPT ![w] = "mark"]
            /\ run' = [run EXCEPT ![w] = nextRun]
            /\ nextRun' = nextRun + 1
            /\ UNCHANGED loaded
  /\ UNCHANGED <<svcVars, dbVars, queueVars, active, sendable, faults, cur, fileId, added, failure, exc, notes,
                 emptyCount, lastErr>>

FindFile(w) ==
  /\ w \in active /\ pc[w] = "find"
  /\ IF status[fileId[w]] = "NONE"
       THEN /\ pc' = [pc EXCEPT ![w] = "delete"]
            /\ UNCHANGED <<loaded, run, nextRun>>
       ELSE /\ pc' = [pc EXCEPT ![w] = "mark"]
            /\ loaded' = [loaded EXCEPT ![w] = status[fileId[w]]]
            /\ run' = [run EXCEPT ![w] = nextRun]
            /\ nextRun' = nextRun + 1
  /\ UNCHANGED <<svcVars, dbVars, queueVars, active, sendable, faults, cur, fileId, added, failure, exc, notes,
                 emptyCount, lastErr>>

\* ifc_file.status = "PROCESSING"; db.commit()
MarkProcessing(w) ==
  /\ w \in active /\ pc[w] = "mark"
  /\ status' = [status EXCEPT ![fileId[w]] = "PROCESSING"]
  /\ materials' = materials \cup Flushed(w)
  /\ added' = [added EXCEPT ![w] = 0]
  /\ pc' = [pc EXCEPT ![w] = "notify_processing"]
  /\ UNCHANGED <<svcVars, doneRuns, queueVars, active, sendable, faults, cur, fileId, loaded, run, failure, exc,
                 notes, emptyCount, lastErr, nextRun>>

\* where process_ifc_file continues after _notify_status_update, whose
\* try/except swallows a failed delivery
AfterNotifyPropagates(next, delivered) ==
  IF delivered \/ next = "reraise" THEN next ELSE "on_error"
AfterNotify(next, delivered) == next

NotifiedStatusStale(p) == "PROCESSING"
NotifiedStatus(p) ==
  CASE p = "notify_processing" -> "PROCESSING"
    [] p = "notify_completed"  -> "COMPLETED"
    [] OTHER                   -> "ERROR"

NotifyNext(p) ==
  CASE p = "notify_processing" -> "download"
    [] p = "notify_completed"  -> "delete"
    [] OTHER                   -> "reraise"

\* await _notify_status_update(...) at its three call sites
NotifyStatusUpdate(w) ==
  /\ w \in active /\ pc[w] \in {"notify_processing", "notify_completed", "notify_error"}
  /\ \E delivered \in BOOLEAN :
       /\ delivered \/ CanFail("notify")
       /\ notes' = [notes EXCEPT ![w] =
                      Append(@, [status |-> NotifiedStatus(pc[w]), ok |-> delivered])]
       /\ pc' = [pc EXCEPT ![w] = AfterNotify(NotifyNext(pc[w]), delivered)]
  /\ UNCHANGED <<svcVars, dbVars, queueVars, active, sendable, faults, cur, fileId, loaded, run, added, failure,
                 exc, emptyCount, lastErr, nextRun>>

\* a call inside the try block raises
Raise(w, site) ==
  \E k \in ExcKinds :
    /\ [site |-> site, kind |-> k] \in faults
    /\ failure' = [failure EXCEPT ![w] = [site |-> site, kind |-> k]]
    /\ pc' = [pc EXCEPT ![w] = "on_error"]

\* s3_client.download_fileobj(bucket_name, ifc_file.file_path, file_obj)
Download(w) ==
  /\ w \in active /\ pc[w] = "download"
  /\ \/ pc' = [pc EXCEPT ![w] = "open"] /\ UNCHANGED failure
     \/ Raise(w, "download")
  /\ UNCHANGED <<svcVars, dbVars, queueVars, active, sendable, faults, cur, fileId, loaded, run, added, exc,
                 notes, emptyCount, lastErr, nextRun>>

\* ifcopenshell.open(temp_file_path); ifc_model.by_type('IfcProduct')
OpenModel(w) ==
  /\ w \in active /\ pc[w] = "open"
  /\ \/ pc' = [pc EXCEPT ![w] = "extract"] /\ UNCHANGED failure
     \/ Raise(w, "open")
  /\ UNCHANGED <<svcVars, dbVars, queueVars, active, sendable, faults, cur, fileId, loaded, run, added, exc,
                 notes, emptyCount, lastErr, nextRun>>

\* one iteration of "for product in products": db.add(Material(...)) or a raise
ExtractProductAutocommit(w) ==
  /\ w \in active /\ pc[w] = "extract"
  /\ added[w] < Products[fileId[w]]
  /\ \/ /\ added' = [added EXCEPT ![w] = @ + 1]
        /\ materials' = materials \cup
                           {[file |-> fileId[w], run |-> run[w], idx |-> added[w] + 1]}
        /\ UNCHANGED <<pc, failure>>
     \/ Raise(w, "extract") /\ UNCHANGED <<added, materials>>
  /\ UNCHANGED <<svcVars, status, doneRuns, queueVars, active, sendable, faults, cur, fileId,
                 loaded, run, exc, notes, emptyCount, lastErr, nextRun>>

ExtractProduct(w) ==
  /\ w \in active /\ pc[w] = "extract"
  /\ added[w] < Products[fileId[w]]
  /\ \/ /\ added' = [added EXCEPT ![w] = @ + 1]
        /\ UNCHANGED <<pc, failure>>
     \/ Raise(w, "extract") /\ UNCHANGED added
  /\ UNCHANGED <<svcVars, dbVars, queueVars, active, sendable, faults, cur, fileId, loaded, run, exc, notes,
                 emptyCount, lastErr, nextRun>>

\* after the loop: ifc_file.status = "COMPLETED"; db.commit()
CompleteProcessing(w) ==
  /\ w \in active /\ pc[w] = "extract"
  /\ added[w] = Products[fileId[w]]
  /\ status' = [status EXCEPT ![fileId[w]] = "COMPLETED"]
  /\ materials' = materials \cup Flushed(w)
  /\ doneRuns' = doneRuns \cup {run[w]}
  /\ added' = [added EXCEPT ![w] = 0]
  /\ pc' = [pc EXCEPT ![w] = "notify_completed"]
  /\ UNCHANGED <<svcVars, queueVars, active, sendable, faults, cur, fileId, loaded, run, failure, exc, notes,
                 emptyCount, lastErr, nextRun>>

\* except Exception as e: ifc_file.status = "ERROR"; db.commit()
HandleErrorNoCommit(w) ==
  /\ w \in active /\ pc[w] = "on_error"
  /\ added' = [added EXCEPT ![w] = 0]
  /\ pc' = [pc EXCEPT ![w] = "notify_error"]
  /\ UNCHANGED <<svcVars, dbVars, queueVars, active, sendable, faults, cur, fileId, loaded, run, failure, exc,
                 notes, emptyCount, lastErr, nextRun>>

HandleError(w) ==
  /\ w \in active /\ pc[w] = "on_error"
  /\ status' = [status EXCEPT ![fileId[w]] = "ERROR"]
  /\ materials' = materials \cup Flushed(w)
  /\ added' = [added EXCEPT ![w] = 0]
  /\ pc' = [pc EXCEPT ![w] = "notify_error"]
  /\ UNCHANGED <<svcVars, doneRuns, queueVars, active, sendable, faults, cur, fileId, loaded, run, failure, exc,
                 notes, emptyCount, lastErr, nextRun>>

\* raise e
Reraise(w) ==
  /\ w \in active /\ pc[w] = "reraise"
  /\ exc' = [exc EXCEPT ![w] = failure[w]]
  /\ pc' = [pc EXCEPT ![w] = "loop_except"]
  /\ UNCHANGED <<svcVars, dbVars, queueVars, active, sendable, faults, cur, fileId, loaded, run, added, failure,
                 notes, emptyCount, lastErr, nextRun>>

\* the worker process is killed: nothing more is committed, the session and
\* its pending objects die with the process, the message stays on the queue
Crash(w) ==
  /\ w \in active /\ pc[w] \notin {"stopped", "crashed"}
  /\ pc' = [pc EXCEPT ![w] = "crashed"]
  /\ UNCHANGED <<svcVars, dbVars, queueVars, active, sendable, faults, cur, runVars,
                 emptyCount, lastErr, nextRun>>

\* the worker is started again and enters its loop with fresh locals
Restart(w) ==
  /\ w \in active /\ pc[w] = "crashed"
  /\ pc' = [pc EXCEPT ![w] = "receive"]
  /\ cur' = [cur EXCEPT ![w] = NoMsg]
  /\ EndIteration(w, "receive")
  /\ UNCHANGED <<svcVars, dbVars, queueVars, active, sendable, faults, emptyCount, lastErr,
                 nextRun>>

workerVars == <<dbVars, queueVars, active, sendable, faults, pc, cur, runVars, emptyCount,
                lastErr, nextRun>>

\* ------------------------------------------------------- circuit breaker
\* aiobreaker.CircuitBreaker(fail_max, timeout_duration), as S3IFCStorage,
\* IfcOpenShellProcessor and WebhookNotifier each build one per instance

\* CircuitBreakerConfig.failure_threshold of the instance under study
FailureThreshold == 2

NewBreaker == [state |-> "closed", counter |-> 0, expired |-> FALSE]

\* an open breaker rejects every call until timeout_duration has passed
BreakerNeverBlocks(b) == FALSE
BreakerBlocks(b) == b.state = "open" /\ ~b.expired

\* a failure that reaches fail_max in the closed state, or any failure of the
\* trial call made once the timeout has passed, opens the breaker
Trips(b) == b.state = "open" \/ b.counter + 1 >= FailureThreshold

\* the breaker after a call it let through
BreakerAfter(b, ok) ==
  CASE ok       -> NewBreaker
    [] Trips(b) -> [state |-> "open", counter |-> FailureThreshold, expired |-> FALSE]
    [] OTHER    -> [state |-> "closed", counter |-> b.counter + 1, expired |-> FALSE]

\* what "await self.circuit_breaker(f)(...)" does with a call whose f would
\* succeed (ok) or raise: the breaker afterwards, whether f was invoked, and
\* what the caller sees ("circuit_open": a CircuitBreakerError)
BreakerCall(b, ok) ==
  IF BreakerBlocks(b)
    THEN [breaker |-> b, invoked |-> FALSE, out |-> "circuit_open"]
    ELSE [breaker |-> BreakerAfter(b, ok), invoked |-> TRUE,
          out |-> CASE ok       -> "ok"
                    [] Trips(b) -> "circuit_open"
                    [] OTHER    -> "failed"]

\* timeout_duration passes for an open breaker
TimeoutPassed(b) == [b EXCEPT !.expired = TRUE]

\* ------------------------------------- IFCService.process_ifc_upload_async

MaxUploads == 3

\* file.filename, a string of characters; NoName: the attribute is None
NoName == <<"None">>
FileNames ==
  {NoName, <<>>,
   <<"m", ".", "i", "f", "c">>, <<"M", ".", "I", "F", "C">>, <<"m", ".", "I", "f", "c">>,
   <<".", "i", "f", "c">>, <<"m", ".", "t", "x", "t">>, <<"m", "i", "f", "c">>,
   <<"m", ".", "i", "f", "c", ".", "t", "x", "t">>, <<"m", ".", "i", "f", "c", " ">>}

\* str.lower(), character by character
LowerKeepsCase(c) == c
Lower(c) ==
  CASE c = "M" -> "m"
    [] c = "I" -> "i"
    [] c = "F" -> "f"
    [] c = "C" -> "c"
    [] OTHER   -> c

LowerStr(s) == [i \in 1..Len(s) |-> Lower(s[i])]

\* str.endswith
EndsWith(s, suffix) ==
  /\ Len(s) >= Len(suffix)
  /\ SubSeq(s, Len(s) - Len(suffix) + 1, Len(s)) = suffix

\* not file.filename or not file.filename.lower().endswith('.ifc')
Rejected(name) ==
  \/ name \in {NoName, <<>>}
  \/ ~EndsWith(LowerStr(name), <<".", "i", "f", "c">>)

\* the mapped attributes of IFCFile and the keywords the upload passes to its
\* constructor, which raises TypeError for a keyword that is no attribute
IFCFileAttributes ==
  {"id", "original_filename", "file_path", "status", "project_id", "created_at",
   "updated_at", "project", "materials"}
IFCFileKwargs == {"original_filename", "status", "project_id", "file_path", "file_size"}
ConstructorAccepts == FALSE
ConstructorRaises == ~(IFCFileKwargs \subseteq IFCFileAttributes)

\* status_code of the HTTPException the upload raises
StatusCodeAlwaysClient(e) == 400
StatusCode(e) == IF e = "gate" THEN 400 ELSE 500

NoCall ==
  [pc |-> "idle", name |-> NoName, key |-> 0, wrote |-> FALSE, storeFailed |-> FALSE,
   row |-> NoFile, notified |-> FALSE, returned |-> FALSE, code |-> 0, count |-> 0,
   objects |-> {}, refs |-> {}]

\* a client posts a file to the upload endpoint
StartUpload(name) ==
  /\ upload.pc \in {"idle", "done"}
  /\ upload.count < MaxUploads
  /\ upload' = [NoCall EXCEPT !.pc = "gate", !.name = name,
                              !.count = upload.count + 1, !.objects = upload.objects,
                              !.refs = upload.refs]
  /\ UNCHANGED <<workerVars, pureVars, s3, local, proc, hook>>

\* the extension gate, then object_key = f"ifc-files/{uuid4()}.ifc"
ValidateFile ==
  /\ upload.pc = "gate"
  /\ upload' = IF Rejected(upload.name)
                 THEN [upload EXCEPT !.pc = "done", !.code = StatusCode("gate")]
                 ELSE [upload EXCEPT !.pc = "store", !.key = upload.count]
  /\ UNCHANGED <<workerVars, pureVars, s3, local, proc, hook>>

\* await self.storage.upload_file(...); except IFCStorageError: db.rollback()
StoreFile ==
  /\ upload.pc = "store"
  /\ \E ok \in BOOLEAN :
       upload' = IF ok
                   THEN [upload EXCEPT !.pc = "record", !.wrote = TRUE,
                                       !.objects = @ \cup {upload.key}]
                   ELSE [upload EXCEPT !.pc = "done", !.storeFailed = TRUE,
                                       !.code = StatusCode("IFCStorageError")]
  /\ UNCHANGED <<workerVars, pureVars, s3, local, proc, hook>>

\* what notify_processing_queued does: it returns, raises IFCNotificationError
\* or raises another exception
NotifyOutcomes == {"delivered", "IFCNotificationError", "Exception"}

\* IFCFile(...); db.add; db.commit; notify_processing_queued (an
\* IFCNotificationError is logged); return; except Exception: db.rollback(),
\* which does not undo the commit
RecordAndNotify ==
  /\ upload.pc = "record"
  /\ IF ConstructorRaises
       THEN /\ upload' = [upload EXCEPT !.pc = "done", !.code = StatusCode("Exception")]
            /\ UNCHANGED <<status, queue>>
       ELSE \E f \in Files, o \in NotifyOutcomes :
              /\ status[f] = "NONE"
              /\ status' = [status EXCEPT ![f] = "PENDING"]
              /\ queue' = IF o = "delivered"
                            THEN queue \cup {[kind |-> "valid", id |-> f]}
                            ELSE queue
              /\ upload' = [upload EXCEPT
                              !.pc = "done", !.row = f, !.notified = TRUE,
                              !.refs = @ \cup {upload.key},
                              !.returned = o # "Exception",
                              !.code = IF o = "Exception" THEN StatusCode(o) ELSE 0]
  /\ UNCHANGED <<materials, doneRuns, invisible, active, sendable, faults, pc, cur, runVars,
                 emptyCount, lastErr, nextRun, s3, local, proc, hook, pureVars>>

\* ------------------------------------------------------------ S3IFCStorage

S3Keys == {"k1", "k2"}
NoS3Call ==
  [op |-> "none", key |-> "none", held |-> FALSE, healthy |-> TRUE, streak |-> 0,
   expired |-> FALSE, out |-> "none", invoked |-> FALSE, attempts |-> 0,
   answers |-> <<>>]

\* what the S3 endpoint answers to put_object / delete_object /
\* generate_presigned_url for a key: S3 does not look the key up for a
\* presigned URL, and answers a delete of an absent key like any other
S3Responses(op, k) ==
  CASE ~s3.healthy                        -> {"ClientError"}
    [] op = "delete" /\ k \notin s3.objects -> {"ok", "NoSuchKey"}
    [] OTHER                              -> {"ok"}

\* _perform_upload / _perform_delete / _perform_presigned_url return normally
Performs(op, resp) == resp = "ok" \/ (op = "delete" /\ resp = "NoSuchKey")

ObjectsAfter(op, k) ==
  CASE op = "upload" -> s3.objects \cup {k}
    [] op = "delete" -> s3.objects \ {k}
    [] OTHER         -> s3.objects

\* RetryConfig.max_attempts
MaxAttempts == 3

\* what the endpoint answers to the successive attempts of one call, were
\* they all made
AnswerSeqs == [1..MaxAttempts -> {"ok", "ClientError"}]

\* the attempts one call makes: the wrapped _perform_* coroutine is awaited
\* once, no retry decorator is applied to it
AttemptsMade(answers) == 1

\* upload_file / delete_file / get_presigned_url: the operation runs under the
\* circuit breaker; any exception becomes an IFCStorageError, whose message
\* tells a CircuitBreakerError ("circuit_open") from another failure ("failed")
S3Call(op, k, answers) ==
  LET made == SubSeq(answers, 1, AttemptsMade(answers))
      resp == made[Len(made)]
      r == BreakerCall(s3.breaker, Performs(op, resp))
  IN s3' = [s3 EXCEPT
              !.breaker = r.breaker,
              !.objects = IF r.out = "ok" THEN ObjectsAfter(op, k) ELSE @,
              !.streak = IF r.out = "ok" THEN 0
                         ELSE IF @ > FailureThreshold THEN @ ELSE @ + 1,
              !.last = [op |-> op, key |-> k, held |-> k \in s3.objects,
                        healthy |-> s3.healthy, streak |-> s3.streak,
                        expired |-> s3.breaker.expired, out |-> r.out,
                        invoked |-> r.invoked,
                        attempts |-> IF r.invoked THEN Len(made) ELSE 0,
                        answers |-> answers]]

S3UploadFile(k) ==
  /\ \E resp \in S3Responses("upload", k) : S3Call("upload", k, <<resp>>)
  /\ UNCHANGED <<workerVars, pureVars, upload, local, proc, hook>>

S3DeleteFile(k) ==
  /\ \E resp \in S3Responses("delete", k) : S3Call("delete", k, <<resp>>)
  /\ UNCHANGED <<workerVars, pureVars, upload, local, proc, hook>>

S3GetPresignedUrl(k) ==
  /\ \E resp \in S3Responses("presign", k) : S3Call("presign", k, <<resp>>)
  /\ UNCHANGED <<workerVars, pureVars, upload, local, proc, hook>>

\* upload_file against an endpoint whose answers vary from attempt to attempt
S3UploadAttempts(k, answers) ==
  /\ S3Call("upload", k, answers)
  /\ UNCHANGED <<workerVars, pureVars, upload, local, proc, hook>>

\* the S3 endpoint becomes unreachable, or reachable again
S3Outage ==
  /\ s3.healthy
  /\ s3' = [s3 EXCEPT !.healthy = FALSE]
  /\ UNCHANGED <<workerVars, pureVars, upload, local, proc, hook>>

S3Recovery ==
  /\ ~s3.healthy
  /\ s3' = [s3 EXCEPT !.healthy = TRUE]
  /\ UNCHANGED <<workerVars, pureVars, upload, local, proc, hook>>

\* reset_timeout seconds have passed since the breaker opened
S3ResetTimeout ==
  /\ BreakerBlocks(s3.breaker)
  /\ s3' = [s3 EXCEPT !.breaker = TimeoutPassed(@)]
  /\ UNCHANGED <<workerVars, pureVars, upload, local, proc, hook>>

\* --------------------------------------------------------- LocalIFCStorage

\* storage keys and paths below storage_path, as strings of name parts
LocalKeys == {<<"a">>, <<"..", "/", "a">>, <<"a", ".meta">>, <<"a", "/", "b">>}

\* file contents: two uploads of different length, and the text _write_metadata
\* writes for the metadata {"k": "v"}
Content1 == <<"x">>
Content2 == <<"y", "z">>
Contents == {Content1, Content2}
MetaText == <<"k", "=", "v">>
Absent == <<"absent">>
NoContent == <<"none">>

NotDots(t) == t # ".."

RECURSIVE LStrip(_)
\* str.lstrip('/')
LStrip(s) == IF s # <<>> /\ Head(s) = "/" THEN LStrip(Tail(s)) ELSE s

\* _get_file_path: key.replace('..', '').lstrip('/') below storage_path
SafeKey(key) == LStrip(SelectSeq(key, NotDots))

\* file_path.with_suffix(file_path.suffix + '.meta')
MetaPath(p) == Append(p, ".meta")

LocalPaths == {SafeKey(k) : k \in LocalKeys} \cup {MetaPath(SafeKey(k)) : k \in LocalKeys}

\* the directories file_path.parent.mkdir(parents=True) creates
Parents(p) == {SubSeq(p, 1, i - 1) : i \in {j \in 1..Len(p) : p[j] = "/"}}

IsDir(p) == p = <<>> \/ p \in local.dirs
IsFile(p) == p \in LocalPaths /\ local.files[p] # Absent
Exists(p) == IsDir(p) \/ IsFile(p)

NoLocalCall ==
  [op |-> "none", key |-> <<>>, held |-> FALSE, out |-> "none", size |-> 0]

\* get_file_content(key): the bytes read, or NoContent for an IFCStorageError
GetFileContent(k) ==
  IF IsFile(SafeKey(k)) /\ ~IsDir(SafeKey(k)) THEN local.files[SafeKey(k)] ELSE NoContent

\* get_metadata(key): the key=value lines of the side file, nothing when the
\* side file is absent, cannot be opened or holds no such line
GetMetadata(k) ==
  LET m == MetaPath(SafeKey(k))
  IN IF IsFile(m) /\ ~IsDir(m) /\ (\E i \in 1..Len(local.files[m]) : local.files[m][i] = "=")
       THEN local.files[m]
       ELSE <<>>

\* get_presigned_url(key) returns a URL (TRUE) or raises IFCStorageError
LocalGetPresignedUrl(k) == Exists(SafeKey(k))

\* upload_file(content, key, metadata)
LocalUploadFile(k, c) ==
  LET p == SafeKey(k)
      mkdirFails == \E d \in Parents(p) : IsFile(d)
      openFails == IsDir(p)
      ok == ~mkdirFails /\ ~openFails
      written == [local.files EXCEPT ![p] = c]
  IN /\ local' = [local EXCEPT
                    !.dirs = IF mkdirFails THEN @ ELSE @ \cup Parents(p),
                    !.files = IF ~ok THEN @
                              ELSE IF IsDir(MetaPath(p)) THEN written
                              ELSE [written EXCEPT ![MetaPath(p)] = MetaText],
                    !.latest = IF ok THEN [@ EXCEPT ![k] = c] ELSE @,
                    !.last = [op |-> "upload", key |-> k, held |-> IsFile(p),
                              out |-> IF ok THEN "ok" ELSE "IFCStorageError",
                              size |-> IF ok THEN Len(c) ELSE 0]]
     /\ UNCHANGED <<workerVars, pureVars, upload, s3, proc, hook>>

\* delete_file(key)
LocalDeleteFile(k) ==
  LET p == SafeKey(k)
      unlinkFails == IsDir(p)
      metaFails == IsDir(MetaPath(p))
      gone == [local.files EXCEPT ![p] = Absent]
  IN /\ local' = [local EXCEPT
                    !.files = CASE ~Exists(p) \/ unlinkFails -> @
                                [] metaFails           -> gone
                                [] OTHER               -> [gone EXCEPT ![MetaPath(p)] = Absent],
                    !.latest = [@ EXCEPT ![k] = NoContent],
                    !.last = [op |-> "delete", key |-> k, held |-> IsFile(p),
                              out |-> IF Exists(p) /\ (unlinkFails \/ metaFails)
                                        THEN "IFCStorageError" ELSE "ok",
                              size |-> 0]]
     /\ UNCHANGED <<workerVars, pureVars, upload, s3, proc, hook>>

\* --------------------------------------------------- IfcOpenShellProcessor

\* the storage backends IFCServiceContainer wires into the processor
Backends == {"s3", "local"}

\* object keys as process_ifc_upload_async generates them
ProcKeys == {<<"ifc-files", "/", "u1.ifc">>, <<"ifc-files", "/", "u2.ifc">>}

\* UploadResult.storage_url: f"s3://{bucket}/{key}" for S3IFCStorage,
\* _get_file_url(key) with base_url http://localhost:8000/storage for
\* LocalIFCStorage, as urlparse splits them
S3Url(key) == [scheme |-> "s3", netloc |-> "bucket", path |-> <<"/">> \o key]
LocalFileUrl(key) ==
  [scheme |-> "http", netloc |-> "localhost:8000",
   path |-> <<"/", "storage", "/">> \o LStrip(key)]
StorageUrl(backend, key) == IF backend = "s3" THEN S3Url(key) ELSE LocalFileUrl(key)

\* a locator that is the bare key
PlainKey(key) == [scheme |-> "", netloc |-> "", path |-> key]

Locators ==
  {StorageUrl(b, k) : b \in Backends, k \in ProcKeys} \cup {PlainKey(k) : k \in ProcKeys}

\* _download_file_to_temp: the key taken from the locator
KeyOfLocator(u) == IF u.scheme \in {"s3", "http"} THEN LStrip(u.path) ELSE u.path

\* hasattr(self.storage, 'get_file_content')
HasGetFileContent(backend) == backend = "local"

\* the stored key whose bytes _download_file_to_temp reads, <<>> when it raises
ReadKey(backend, stored, u) ==
  IF HasGetFileContent(backend)
       /\ \E k \in stored : SafeKey(k) = SafeKey(KeyOfLocator(u))
    THEN CHOOSE k \in stored : SafeKey(k) = SafeKey(KeyOfLocator(u))
    ELSE <<>>

\* how long each awaited step takes against its asyncio.wait_for limit, and
\* what it yields when it ends in time
StageOutcomes ==
  [download : {"ok", "timeout"}, validate : {"ok", "invalid", "timeout"},
   extract : {"ok", "error", "timeout"}]

\* _perform_processing: "completed", or the class of the IFCProcessingError
PerformProcessing(backend, stored, u, o) ==
  CASE o.download = "timeout"               -> "timeout"
    [] ReadKey(backend, stored, u) = <<>>   -> "error"
    [] o.validate = "timeout"               -> "timeout"
    [] o.validate = "invalid"               -> "error"
    [] o.extract = "timeout"                -> "timeout"
    [] o.extract = "error"                  -> "error"
    [] OTHER                                -> "completed"

NoProcCall ==
  [loc |-> PlainKey(<<>>), stored |-> {}, status |-> "none", msg |-> "none",
   read |-> <<>>, inTime |-> FALSE, timedOut |-> FALSE, invoked |-> FALSE,
   sound |-> FALSE]

\* storage.upload_file stored an object under the key
ProcStore(k) ==
  /\ k \notin proc.files
  /\ proc' = [proc EXCEPT !.files = @ \cup {k}]
  /\ UNCHANGED <<workerVars, pureVars, upload, s3, local, hook>>

\* process_file(storage_url, file_metadata)
ProcessFile(u, o) ==
  LET res == PerformProcessing(proc.backend, proc.files, u, o)
      r == BreakerCall(proc.breaker, res = "completed")
  IN /\ proc' = [proc EXCEPT
                   !.breaker = r.breaker,
                   !.last = [loc |-> u, stored |-> proc.files,
                             status |-> IF r.out = "ok" THEN "COMPLETED" ELSE "FAILED",
                             msg |-> CASE r.out = "ok"           -> "none"
                                       [] r.out = "circuit_open" -> "circuit breaker open"
                                       [] OTHER                  -> res,
                             read |-> IF r.invoked /\ o.download = "ok"
                                        THEN ReadKey(proc.backend, proc.files, u)
                                        ELSE <<>>,
                             inTime |-> o.download = "ok",
                             timedOut |-> r.invoked /\ res = "timeout",
                             invoked |-> r.invoked,
                             sound |-> o = [download |-> "ok", validate |-> "ok",
                                            extract |-> "ok"]]]
     /\ UNCHANGED <<workerVars, pureVars, upload, s3, local, hook>>

\* reset_timeout seconds have passed since the processor's breaker opened
ProcResetTimeout ==
  /\ BreakerBlocks(proc.breaker)
  /\ proc' = [proc EXCEPT !.breaker = TimeoutPassed(@)]
  /\ UNCHANGED <<workerVars, pureVars, upload, s3, local, hook>>

\* ---------------------------------------------------------- WebhookNotifier

MaxDeliveries == 2

\* the configured webhook_urls, as urlparse splits them
WebhookUrls ==
  <<[scheme |-> "https", hostname |-> <<"a", ".example">>],
    [scheme |-> "https", hostname |-> <<"b", ".example">>],
    [scheme |-> "http", hostname |-> <<"10.", "0.0.5">>],
    [scheme |-> "ftp", hostname |-> <<"c", ".example">>]>>

EventTypes == {"ifc_processing_queued", "ifc_processing_complete", "ifc_processing_error"}

\* _validate_webhook_url
ValidateWebhookUrl(u) ==
  /\ u.scheme \in {"http", "https"}
  /\ \/ u.hostname \in {<<"localhost">>, <<"127.0.0.1">>, <<"::1">>}
     \/ Head(u.hostname) \notin {"10.", "192.168.", "172."}

\* valid_urls, by position in webhook_urls
ValidUrls == {i \in 1..Len(WebhookUrls) : ValidateWebhookUrl(WebhookUrls[i])}

\* the orders in which the requests asyncio.gather runs together can end
Orders == {s \in [1..Cardinality(ValidUrls) -> ValidUrls] :
             \A i, j \in DOMAIN s : s[i] = s[j] => i = j}

\* the breaker after one of the concurrent requests ended; each request is
\* handled by the breaker state it started in (start is "closed" or "half_open")
Completion(b, start, ok) ==
  CASE start = "half_open" /\ ok -> NewBreaker
    [] start = "half_open"       ->
         [state |-> "open", counter |-> b.counter, expired |-> FALSE]
    [] ok                        -> [b EXCEPT !.counter = 0]
    [] b.counter + 1 >= FailureThreshold ->
         [state |-> "open", counter |-> FailureThreshold, expired |-> FALSE]
    [] OTHER                     -> [b EXCEPT !.counter = @ + 1]

RECURSIVE Completions(_, _, _, _)
Completions(b, start, order, accept) ==
  IF order = <<>> THEN b
  ELSE Completions(Completion(b, start, Head(order) \in accept), start, Tail(order), accept)

NoHookCall == [event |-> "none", accept |-> {}, blocked |-> FALSE, out |-> "none"]

\* _send_webhook_notifications(payload), for the endpoints that would accept
\* the delivery and an order in which the requests end
SendWebhookNotifications(event, accept, order) ==
  LET blocked == BreakerBlocks(hook.breaker)
      start == IF hook.breaker.state = "open" THEN "half_open" ELSE "closed"
      delivered == IF blocked THEN {} ELSE accept
  IN /\ \A i \in accept : hook.received[i] < MaxDeliveries
     /\ hook' = [hook EXCEPT
                   !.breaker = IF blocked THEN @ ELSE Completions(@, start, order, accept),
                   !.received = [i \in ValidUrls |->
                                   IF i \in delivered THEN @[i] + 1 ELSE @[i]],
                   !.last = [event |-> event, accept |-> accept, blocked |-> blocked,
                             out |-> IF delivered = {} THEN "IFCNotificationError"
                                     ELSE "ok"]]
     /\ UNCHANGED <<workerVars, pureVars, upload, s3, local, proc>>

\* reset_timeout seconds have passed since the notifier's breaker opened
HookResetTimeout ==
  /\ BreakerBlocks(hook.breaker)
  /\ hook' = [hook EXCEPT !.breaker = TimeoutPassed(@)]
  /\ UNCHANGED <<workerVars, pureVars, upload, s3, local, proc>>

\* ------------------------------------------- per-element quantity and unit

\* the IfcQuantity* entities of an element's IfcElementQuantity sets, in the
\* order IsDefinedBy / Quantities yields them
QuantityKinds == {"Volume", "Weight", "Area", "Length", "Count"}

\* VolumeValue, WeightValue, ...: zero, or a positive value
QuantityValues == {0, 2}

\* an element with no, one or two quantities
QuantityLists ==
  LET Q == [kind : QuantityKinds, value : QuantityValues]
  IN {<<>>} \cup {<<q>> : q \in Q} \cup {<<q, r>> : q \in Q, r \in Q}

\* default_material_type passed by _sync_extract_materials
MaterialTypes ==
  {"Steel Beam", "Steel Column", "Precast Concrete Panel", "Precast Concrete Slab"}

\* 'Steel' in default_material_type
IsSteel(type) == type \in {"Steel Beam", "Steel Column"}

\* _extract_element_quantity: the value of the first volume, weight, area or
\* length quantity (0 when the value is falsy), 0 when there is none
RECURSIVE ExtractElementQuantity(_)
ExtractElementQuantity(qs) ==
  IF qs = <<>> THEN [used |-> "none", value |-> 0]
  ELSE IF Head(qs).kind \in {"Volume", "Weight", "Area", "Length"}
         THEN [used |-> Head(qs).kind, value |-> Head(qs).value]
         ELSE ExtractElementQuantity(Tail(qs))

\* _extract_element_material
ExtractElementMaterial(type, qs) ==
  LET q == ExtractElementQuantity(qs)
  IN [used |-> q.used,
      unit |-> IF IsSteel(type) THEN "kg" ELSE "m3",
      quantity |-> IF q.value = 0 THEN (IF IsSteel(type) THEN 100 ELSE 1) ELSE q.value,
      defaulted |-> q.value = 0]

\* process_ifc_file: the first volume, area, length or count quantity gives
\* quantity and unit; without one the record is 1.0 'item'
RECURSIVE ProductQuantity(_)
ProductQuantity(qs) ==
  IF qs = <<>> THEN [used |-> "none", unit |-> "item", quantity |-> 1, defaulted |-> TRUE]
  ELSE IF Head(qs).kind \in {"Volume", "Area", "Length", "Count"}
         THEN [used |-> Head(qs).kind,
               unit |-> CASE Head(qs).kind = "Volume" -> "m3"
                          [] Head(qs).kind = "Area" -> "m2"
                          [] Head(qs).kind = "Length" -> "m"
                          [] Head(qs).kind = "Count" -> "count",
               quantity |-> Head(qs).value,
               defaulted |-> FALSE]
         ELSE ProductQuantity(Tail(qs))

NoExtraction ==
  [by |-> "none", type |-> "none", quantities |-> <<>>,
   record |-> [used |-> "none", unit |-> "none", quantity |-> 0, defaulted |-> FALSE]]

\* IfcOpenShellProcessor extracts the record of one beam, column, wall or slab
ExtractElement(type, qs) ==
  /\ extraction' = [by |-> "processor", type |-> type, quantities |-> qs,
                    record |-> ExtractElementMaterial(type, qs)]
  /\ UNCHANGED <<workerVars, upload, s3, local, proc, hook, mock>>

\* the worker extracts the record of one IfcProduct
ExtractProductQuantity(qs) ==
  /\ extraction' = [by |-> "worker", type |-> "IfcProduct", quantities |-> qs,
                    record |-> ProductQuantity(qs)]
  /\ UNCHANGED <<workerVars, upload, s3, local, proc, hook, mock>>

\* ------------------------------------------------------- MockIFCProcessor

MockBehaviors == {"success", "failure", "timeout", "slow_success"}

\* materials_count values a test double is built with
MaxMaterialsCount == 9

\* processing_delay_seconds values
Delays == {0, 1, 3}

\* mock_materials of _generate_mock_materials
MockMaterials ==
  <<"Steel Beam", "Steel Column", "Precast Concrete Panel", "Precast Concrete Slab",
    "Steel Connection", "Concrete Foundation", "Metal Roofing", "Insulation Panel">>

\* _generate_mock_materials: one entry per index of range(min(count, 8))
GenerateMockMaterials(count) ==
  LET n == IF count < Len(MockMaterials) THEN count ELSE Len(MockMaterials)
  IN [i \in 1..n |-> MockMaterials[i]]

\* MockIFCProcessor.process_file
MockResult(behavior, shouldFail, delay, count) ==
  IF behavior = "failure" \/ shouldFail
    THEN [status |-> "FAILED", materials_count |-> 0, materials |-> <<>>, slept |-> delay]
  ELSE IF behavior = "timeout"
    THEN [status |-> "FAILED", materials_count |-> 0, materials |-> <<>>, slept |-> 10]
  ELSE LET data == GenerateMockMaterials(count)
       IN [status |-> "COMPLETED", materials_count |-> Len(data), materials |-> data,
           slept |-> IF behavior = "slow_success" /\ delay < 2 THEN 2 ELSE delay]

NoMockCall ==
  [behavior |-> "none", should_fail |-> FALSE, delay |-> 0, count |-> 0,
   result |-> [status |-> "none", materials_count |-> 0, materials |-> <<>>, slept |-> 0]]

\* a test double is built and its process_file awaited
MockProcessFile(behavior, shouldFail, delay, count) ==
  /\ mock' = [behavior |-> behavior, should_fail |-> shouldFail, delay |-> delay,
              count |-> count, result |-> MockResult(behavior, shouldFail, delay, count)]
  /\ UNCHANGED <<workerVars, upload, s3, local, proc, hook, extraction>>

\* ---------------------------------------------------------- specification

InitCommon ==
  /\ status = [f \in Files |-> "NONE"]
  /\ materials = {}
  /\ doneRuns = {}
  /\ queue = {}
  /\ invisible = {}
  /\ pc = [w \in Workers |-> "receive"]
  /\ cur = [w \in Workers |-> NoMsg]
  /\ fileId = [w \in Workers |-> NoFile]
  /\ loaded = [w \in Workers |-> "NONE"]
  /\ run = [w \in Workers |-> 0]
  /\ added = [w \in Workers |-> 0]
  /\ failure = [w \in Workers |-> NoFailure]
  /\ exc = [w \in Workers |-> NoFailure]
  /\ notes = [w \in Workers |-> <<>>]
  /\ emptyCount = [w \in Workers |-> NoAttr]
  /\ lastErr = [w \in Workers |-> "none"]
  /\ nextRun = 1
  /\ upload = NoCall
  /\ s3 = [objects |-> {}, breaker |-> NewBreaker, healthy |-> TRUE, streak |-> 0,
           last |-> NoS3Call]
  /\ local = [files |-> [p \in LocalPaths |-> Absent], dirs |-> {},
              latest |-> [k \in LocalKeys |-> NoContent], last |-> NoLocalCall]
  /\ hook = [breaker |-> NewBreaker, received |-> [i \in ValidUrls |-> 0],
             last |-> NoHookCall]
  /\ extraction = NoExtraction
  /\ mock = NoMockCall

\* IfcOpenShellProcessor(storage=...) as the container builds it
NewProcessor(backend) ==
  [backend |-> backend, files |-> {}, breaker |-> NewBreaker, last |-> NoProcCall]

\* one worker process, as started by python -m backend.app.worker
Init ==
  /\ InitCommon /\ active = {"w1"} /\ sendable = Bodies /\ faults = Faults
  /\ proc = NewProcessor("local")

\* two worker processes against the same queue and database, fed well-formed
\* messages, where receive_message and the extraction of an element can fail
InitConcurrent ==
  /\ InitCommon
  /\ active = Workers
  /\ sendable = [kind : {"valid"}, id : Files]
  /\ faults = {[site |-> "receive", kind |-> "Exception"],
               [site |-> "extract", kind |-> "Exception"]}
  /\ proc = NewProcessor("local")

\* one worker process that can be killed and started again, fed well-formed
\* messages, where the extraction of an element can fail
InitCrash ==
  /\ InitCommon
  /\ active = {"w1"}
  /\ sendable = [kind : {"valid"}, id : Files]
  /\ faults = {[site |-> "extract", kind |-> "Exception"]}
  /\ proc = NewProcessor("local")

\* the upload endpoint in front of one worker process: rows and messages come
\* from uploads and from other producers, receive_message and the extraction
\* of an element can fail
InitPipeline ==
  /\ InitCommon
  /\ active = {"w1"}
  /\ sendable = [kind : {"valid"}, id : Files]
  /\ faults = {[site |-> "receive", kind |-> "Exception"],
               [site |-> "extract", kind |-> "Exception"]}
  /\ proc = NewProcessor("local")

\* the services alone: no worker process runs
InitNoWorker == InitCommon /\ active = {} /\ sendable = {} /\ faults = {}

InitService == InitNoWorker /\ proc = NewProcessor("local")

\* the processor over either storage backend the container can wire
InitProcessor == InitNoWorker /\ \E b \in Backends : proc = NewProcessor(b)

Next ==
  \/ \E f \in Files : CreateFile(f)
  \/ \E b \in Bodies : SendMessage(b)
  \/ \E m \in Bodies : VisibilityTimeout(m)
  \/ \E w \in Workers, m \in Bodies : ReceiveOk(w, m)
  \/ \E w \in Workers : ReceiveEmpty(w)
  \/ \E w \in Workers : ReceiveRaises(w)
  \/ \E w \in Workers : ParseMessage(w)
  \/ \E w \in Workers : DeleteMessage(w)
  \/ \E w \in Workers : LoopExcept(w)
  \/ \E w \in Workers : FindFile(w)
  \/ \E w \in Workers : MarkProcessing(w)
  \/ \E w \in Workers : NotifyStatusUpdate(w)
  \/ \E w \in Workers : Download(w)
  \/ \E w \in Workers : OpenModel(w)
  \/ \E w \in Workers : ExtractProduct(w)
  \/ \E w \in Workers : CompleteProcessing(w)
  \/ \E w \in Workers : HandleError(w)
  \/ \E w \in Workers : Reraise(w)

Spec == Init /\ [][Next]_vars

SpecConcurrent == InitConcurrent /\ [][Next]_vars

NextCrash ==
  \/ \E f \in Files : CreateFile(f)
  \/ \E b \in Bodies : SendMessage(b)
  \/ \E m \in Bodies : VisibilityTimeout(m)
  \/ \E w \in Workers, m \in Bodies : ReceiveOk(w, m)
  \/ \E w \in Workers : ReceiveEmpty(w)
  \/ \E w \in Workers : ParseMessage(w)
  \/ \E w \in Workers : DeleteMessage(w)
  \/ \E w \in Workers : LoopExcept(w)
  \/ \E w \in Workers : FindFile(w)
  \/ \E w \in Workers : MarkProcessing(w)
  \/ \E w \in Workers : NotifyStatusUpdate(w)
  \/ \E w \in Workers : Download(w)
  \/ \E w \in Workers : OpenModel(w)
  \/ \E w \in Workers : ExtractProduct(w)
  \/ \E w \in Workers : CompleteProcessing(w)
  \/ \E w \in Workers : HandleError(w)
  \/ \E w \in Workers : Reraise(w)
  \/ \E w \in Workers : Crash(w)
  \/ \E w \in Workers : Restart(w)

SpecCrash == InitCrash /\ [][NextCrash]_vars

NextRetry ==
  \/ \E k \in S3Keys, answers \in AnswerSeqs : S3UploadAttempts(k, answers)
  \/ S3ResetTimeout

SpecRetry == InitService /\ [][NextRetry]_vars

\* a step of a worker process
WorkerStep(w) ==
  \/ \E m \in Bodies : ReceiveOk(w, m)
  \/ ReceiveEmpty(w)
  \/ ReceiveRaises(w)
  \/ ParseMessage(w)
  \/ DeleteMessage(w)
  \/ LoopExcept(w)
  \/ FindFile(w)
  \/ MarkProcessing(w)
  \/ NotifyStatusUpdate(w)
  \/ Download(w)
  \/ OpenModel(w)
  \/ ExtractProduct(w)
  \/ CompleteProcessing(w)
  \/ HandleError(w)
  \/ Reraise(w)

\* a step of the upload in progress
UploadStep == ValidateFile \/ StoreFile \/ RecordAndNotify

NextPipeline ==
  \/ \E f \in Files : CreateFile(f)
  \/ \E b \in Bodies : SendMessage(b)
  \/ \E m \in Bodies : VisibilityTimeout(m)
  \/ StartUpload(<<"m", ".", "i", "f", "c">>)
  \/ UploadStep
  \/ \E w \in Workers : WorkerStep(w)

\* the event loop runs every request to its end, the worker does not stop
\* taking steps, the queue makes an undeleted message visible again
SpecPipeline ==
  /\ InitPipeline /\ [][NextPipeline]_vars
  /\ WF_vars(UploadStep)
  /\ \A w \in Workers : WF_vars(WorkerStep(w))
  /\ \A m \in Bodies : WF_vars(VisibilityTimeout(m))

NextExtract ==
  \/ \E t \in MaterialTypes, qs \in QuantityLists : ExtractElement(t, qs)
  \/ \E qs \in QuantityLists : ExtractProductQuantity(qs)

SpecExtract == InitService /\ [][NextExtract]_vars

NextMock ==
  \E b \in MockBehaviors, f \in BOOLEAN, d \in Delays, n \in 0..MaxMaterialsCount :
    MockProcessFile(b, f, d, n)

SpecMock == InitService /\ [][NextMock]_vars

NextUpload ==
  \/ \E name \in FileNames : StartUpload(name)
  \/ ValidateFile
  \/ StoreFile
  \/ RecordAndNotify

SpecUpload == InitService /\ [][NextUpload]_vars

NextS3 ==
  \/ \E k \in S3Keys : S3UploadFile(k)
  \/ \E k \in S3Keys : S3DeleteFile(k)
  \/ \E k \in S3Keys : S3GetPresignedUrl(k)
  \/ S3Outage
  \/ S3Recovery
  \/ S3ResetTimeout

SpecS3 == InitService /\ [][NextS3]_vars

NextLocal ==
  \/ \E k \in LocalKeys, c \in Contents : LocalUploadFile(k, c)
  \/ \E k \in LocalKeys : LocalDeleteFile(k)

SpecLocal == InitService /\ [][NextLocal]_vars

NextProcessor ==
  \/ \E k \in ProcKeys : ProcStore(k)
  \/ \E u \in Locators, o \in StageOutcomes : ProcessFile(u, o)
  \/ ProcResetTimeout

SpecProcessor == InitProcessor /\ [][NextProcessor]_vars

NextWebhook ==
  \/ \E event \in EventTypes, accept \in SUBSET ValidUrls, order \in Orders :
       SendWebhookNotifications(event, accept, order)
  \/ HookResetTimeout

SpecWebhook == InitService /\ [][NextWebhook]_vars

\* ------------------------------------------------------------ properties

DeleteSites == {"delete", "del_malformed", "del_invalid"}
InCall == {"find", "mark", "notify_processing", "download", "open", "extract",
           "notify_completed", "on_error", "notify_error", "reraise"}
InRun == InCall \ {"find", "mark"}
ErrorPath == {"on_error", "notify_error", "reraise", "loop_except"}
RunsOf(f) == {r.run : r \in RecordsOf(f)}
AllNotesFailed(w) == \A i \in 1..Len(notes[w]) : ~notes[w][i].ok

\* C1: every change of a file's persisted status is PENDING -> PROCESSING,
\* PROCESSING -> COMPLETED or PROCESSING -> ERROR (the insertion of the row
\* as PENDING aside); a COMPLETED or ERROR file never changes status again.
LegalStatusTransitions ==
  [][\A f \in Files :
       status'[f] # status[f] =>
         <<status[f], status'[f]>> \in
           {<<"NONE", "PENDING">>, <<"PENDING", "PROCESSING">>,
            <<"PROCESSING", "COMPLETED">>, <<"PROCESSING", "ERROR">>}]_vars

\* C2: the runs of a file that reached COMPLETED leave exactly one set of
\* Material rows, one per product: a redelivery after COMPLETED adds none.
ExactlyOneRecordSet ==
  \A f \in Files :
    LET done == {r \in RecordsOf(f) : r.run \in doneRuns}
    IN done # {} => Cardinality(done) = Products[f]

\* C3: once the except block of a failed run has committed, the file is ERROR
\* and no Material row created by that run is persisted.
NoPartialRecords ==
  \A w \in Workers :
    pc[w] \in {"notify_error", "reraise", "loop_except"} =>
      /\ status[fileId[w]] = "ERROR"
      /\ RecordsOfRun(run[w]) = {}

\* C4: a worker is at a delete_message call for a message whose file it loaded,
\* and removes that message from the queue, only when the file's committed
\* status is COMPLETED or ERROR.
DeleteOnlyAfterTerminal ==
  [][\A w \in Workers :
       (pc[w] \in DeleteSites /\ Found(w)) =>
         /\ status[fileId[w]] \in Terminal
         /\ (cur[w] \notin queue' /\ cur[w] \in queue) => status'[fileId[w]] \in Terminal]_vars

DeleteOnlyAfterTerminalWitness ==
  \E w \in Workers :
    /\ pc[w] = "receive" /\ cur[w].kind = "valid" /\ cur[w] \notin queue
    /\ status[cur[w].id] = "COMPLETED"

\* C5: process_ifc_file is never entered for a malformed message, and the loop
\* iteration of a malformed message ends with the message deleted (unless
\* delete_message itself raised).
MalformedDeletedUnprocessed ==
  [][\A w \in Workers :
       Malformed(cur[w]) =>
         /\ pc[w] \notin InCall
         /\ (pc[w] \in {"parse"} \cup DeleteSites /\ pc'[w] = "receive"
               /\ lastErr'[w] # "delete") => cur[w] \notin queue']_vars

\* C6: empty receives never end the loop.
NeverStopsOnEmptyReceives == \A w \in Workers : pc[w] # "stopped"

\* C7: a worker processes only a file it found PENDING, two workers never
\* process the same file at the same time, and a file never holds Material
\* rows of more than one run.
NoDoubleProcessing ==
  /\ \A w \in Workers : pc[w] \in InRun => loaded[w] = "PENDING"
  /\ \A w1, w2 \in Workers :
       (w1 # w2 /\ pc[w1] \in InRun /\ pc[w2] \in InRun) => fileId[w1] # fileId[w2]
  /\ \A f \in Files : Cardinality(RunsOf(f)) <= 1

\* C8: when an exception has left process_ifc_file, ERROR is the committed
\* status of the file and the exception is the one raised inside the try block.
ErrorCommittedBeforeRaise ==
  \A w \in Workers :
    pc[w] = "loop_except" =>
      /\ status[fileId[w]] = "ERROR"
      /\ failure[w] # NoFailure
      /\ exc[w] = failure[w]

ErrorCommittedBeforeRaiseWitness ==
  \E w \in Workers :
    pc[w] = "loop_except" /\ exc[w].site = "extract" /\ status[fileId[w]] = "ERROR"

\* C9: a failed notification never puts a run on the error path, and a run all
\* of whose notifications failed reaches delete_message having returned
\* normally, with COMPLETED committed and one Material row per product.
NotificationFailureHarmless ==
  \A w \in Workers :
    /\ pc[w] \in ErrorPath => failure[w].site \in {"download", "open", "extract"}
    /\ (pc[w] = "delete" /\ Found(w) /\ AllNotesFailed(w)) =>
         /\ status[fileId[w]] = "COMPLETED"
         /\ Cardinality(RecordsOfRun(run[w])) = Products[fileId[w]]
         /\ exc[w] = NoFailure
         /\ Len(notes[w]) = 2

NotificationFailureHarmlessWitness ==
  \E w \in Workers :
    /\ pc[w] = "delete" /\ Found(w)
    /\ Len(notes[w]) = 2 /\ AllNotesFailed(w)
    /\ status[fileId[w]] = "COMPLETED"
    /\ RecordsOfRun(run[w]) # {}

\* C10: no step in which the loop catches an exception of receive_message,
\* delete_message, the parsing or process_ifc_file ends the loop: the loop
\* ends only on an empty receive.
LoopSurvivesExceptions ==
  [][\A w \in Workers :
       (pc'[w] = "stopped" /\ pc[w] # "stopped") =>
         /\ pc[w] = "receive" /\ Visible = {}
         /\ lastErr'[w] = lastErr[w]
         /\ emptyCount'[w] # emptyCount[w]]_vars

LoopSurvivesExceptionsWitness ==
  \E w \in Workers : pc[w] = "receive" /\ lastErr[w] = "delete" /\ cur[w] \in queue

\* file names that end in .ifc in some letter case
IfcNames ==
  {<<"m", ".", "i", "f", "c">>, <<"M", ".", "I", "F", "C">>, <<"m", ".", "I", "f", "c">>,
   <<".", "i", "f", "c">>}

\* C11: an upload whose file name is missing or does not end in .ifc (in any
\* letter case) ends with status 400 having written nothing to storage,
\* created no row and sent no notification; a name that ends in .ifc in any
\* letter case is not rejected by the gate.
ExtensionGate ==
  /\ (upload.pc # "idle" /\ upload.name \notin IfcNames) =>
       /\ upload.pc \in {"gate", "done"}
       /\ upload.pc = "done" => upload.code = 400
       /\ ~upload.wrote /\ ~upload.storeFailed
       /\ upload.row = NoFile /\ ~upload.notified
  /\ (upload.pc # "idle" /\ upload.name \in IfcNames) =>
       /\ upload.code # 400
       /\ upload.pc = "done" => (upload.wrote \/ upload.storeFailed)

ExtensionGateWitness ==
  /\ upload.pc = "done" /\ upload.name = <<"m", ".", "t", "x", "t">>
  /\ upload.code = 400 /\ upload.objects # {}

\* C12: an upload whose storage.upload_file raised ends with status 500, with
\* no row created for it and notify_processing_queued never called.
StorageFailureAborts ==
  upload.storeFailed =>
    /\ upload.pc = "done" /\ upload.code = 500
    /\ upload.row = NoFile /\ ~upload.returned
    /\ ~upload.notified

StorageFailureAbortsWitness ==
  /\ upload.storeFailed /\ upload.pc = "done" /\ upload.code = 500
  /\ upload.name = <<"M", ".", "I", "F", "C">>

\* C13: an upload that stored its object ends by returning the created
\* record, whose row is persisted with status PENDING, whether or not
\* notify_processing_queued failed.
NotificationNeverBlocksUpload ==
  (upload.pc = "done" /\ upload.wrote) =>
    /\ upload.returned
    /\ upload.row # NoFile
    /\ status[upload.row] = "PENDING"

\* C14: a storage call made after FailureThreshold or more consecutive failing
\* calls, before the reset timeout has passed, fails with the circuit-open
\* error and does not invoke the underlying S3 operation.
BreakerOpenFailsFast ==
  (s3.last.op # "none" /\ s3.last.streak >= FailureThreshold /\ ~s3.last.expired) =>
    /\ s3.last.out = "circuit_open"
    /\ ~s3.last.invoked

BreakerOpenFailsFastWitness ==
  /\ s3.last.op = "upload" /\ s3.last.streak = FailureThreshold /\ ~s3.last.expired
  /\ s3.last.healthy
  /\ s3.last.out = "circuit_open" /\ ~s3.last.invoked

\* C15: process_file given the storage_url under which the processor's storage
\* backend stored a key reads back the bytes stored under that key (when the
\* call is let through and the download ends in time).
UrlReadsBackStoredBytes ==
  \A k \in ProcKeys :
    (/\ proc.last.loc = StorageUrl(proc.backend, k)
     /\ k \in proc.last.stored
     /\ proc.last.invoked /\ proc.last.inTime) => proc.last.read = k

\* C16: delete_file on a key that holds no object returns True, for
\* S3IFCStorage (with the S3 endpoint reachable) and for LocalIFCStorage, in
\* any state earlier calls have led to.
DeleteAbsentReturnsTrue ==
  /\ (s3.last.op = "delete" /\ ~s3.last.held /\ s3.last.healthy) => s3.last.out = "ok"
  /\ (local.last.op = "delete" /\ ~local.last.held) => local.last.out = "ok"

\* C17: get_presigned_url on a key that holds no object raises IFCStorageError
\* and returns no URL, for S3IFCStorage and for LocalIFCStorage.
PresignedUrlRequiresObject ==
  /\ (s3.last.op = "presign" /\ ~s3.last.held) => s3.last.out # "ok"
  /\ \A k \in LocalKeys : ~IsFile(SafeKey(k)) => ~LocalGetPresignedUrl(k)

\* C18: get_file_content(key) returns the content of the most recent
\* upload_file to that key that no delete_file(key) followed, and the
\* file_size of an UploadResult is the length of the content stored.
RoundTrip ==
  /\ \A k \in LocalKeys :
       local.latest[k] # NoContent => GetFileContent(k) = local.latest[k]
  /\ (local.last.op = "upload" /\ local.last.out = "ok") =>
       local.last.size = Len(GetFileContent(local.last.key))

\* C19: a process_file call in which the download, the validation or the
\* extraction exceeded its time limit returns a FAILED result whose error
\* message names a timeout.
TimeoutReported ==
  proc.last.timedOut => (proc.last.status = "FAILED" /\ proc.last.msg = "timeout")

\* C20: a notification raises IFCNotificationError exactly when no valid
\* endpoint would accept the delivery, whatever notifications came before.
OneAcceptingEndpointSuffices ==
  hook.last.event # "none" =>
    (hook.last.out = "IFCNotificationError" <=> hook.last.accept = {})

\* the unit that belongs to each kind of quantity
UnitOfKind ==
  [k \in QuantityKinds |->
     CASE k = "Volume" -> "m3" [] k = "Weight" -> "kg" [] k = "Area" -> "m2"
       [] k = "Length" -> "m" [] k = "Count" -> "count"]

\* C21: the unit of an extracted record is the unit of the kind of quantity
\* whose value the record carries, and the default quantity and unit are used
\* only for an element that has no explicit quantity.
UnitFollowsQuantityKind ==
  extraction.by # "none" =>
    /\ extraction.record.used # "none" =>
          extraction.record.unit = UnitOfKind[extraction.record.used]
    /\ extraction.record.defaulted => extraction.quantities = <<>>

\* C22: a test double built for success with materials_count = N returns a
\* COMPLETED result with materials_count = N and N entries under 'materials'.
MockReturnsRequestedCount ==
  (mock.behavior \in {"success", "slow_success"} /\ ~mock.should_fail) =>
    /\ mock.result.status = "COMPLETED"
    /\ mock.result.materials_count = mock.count
    /\ Len(mock.result.materials) = mock.count

\* C23: a run of process_ifc_file on an existing row calls
\* _notify_status_update exactly twice, first with PROCESSING and then with the
\* terminal status of the run, and each call is made with the status it
\* reports already committed.
TwoNotificationsInOrder ==
  \A w \in Workers :
    /\ pc[w] \in {"find", "mark", "notify_processing"} => notes[w] = <<>>
    /\ pc[w] = "notify_processing" => status[fileId[w]] = "PROCESSING"
    /\ pc[w] = "notify_completed" => status[fileId[w]] = "COMPLETED"
    /\ pc[w] = "notify_error" => status[fileId[w]] = "ERROR"
    /\ Len(notes[w]) <= 2
    /\ Len(notes[w]) >= 1 => notes[w][1].status = "PROCESSING"
    /\ Len(notes[w]) = 1 =>
          \/ status[fileId[w]] = "PROCESSING"
          \/ pc[w] \in {"notify_completed", "notify_error"}
    /\ Len(notes[w]) = 2 =>
          /\ notes[w][2].status \in Terminal
          /\ notes[w][2].status = status[fileId[w]]
    /\ ((pc[w] = "delete" /\ Found(w)) \/ pc[w] \in {"reraise", "loop_except"}) =>
          Len(notes[w]) = 2

TwoNotificationsInOrderWitness ==
  \E w \in Workers :
    /\ pc[w] = "loop_except"
    /\ notes[w] = <<[status |-> "PROCESSING", ok |-> TRUE], [status |-> "ERROR", ok |-> TRUE]>>

\* C24: whenever the worker is killed, what is persisted is the state of the
\* last commit: no Material row of a run exists while the status its run set
\* is still PROCESSING, and every run whose COMPLETED commit happened has one
\* Material row per product of its file.
CrashLeavesCommittedState ==
  /\ \A w \in Workers :
       (run[w] # 0 /\ status[fileId[w]] = "PROCESSING") => RecordsOfRun(run[w]) = {}
  /\ \A r \in doneRuns :
       \E f \in Files :
         /\ RecordsOfRun(r) \subseteq RecordsOf(f)
         /\ Cardinality(RecordsOfRun(r)) = Products[f]

CrashLeavesCommittedStateWitness ==
  \E w \in Workers :
    /\ pc[w] = "crashed" /\ added[w] > 0
    /\ status[fileId[w]] = "PROCESSING"
    /\ RecordsOfRun(run[w]) = {}

\* C25: an upload_file call the breaker lets through makes up to MaxAttempts
\* attempts: it returns an UploadResult when one of them succeeds, and raises
\* only after MaxAttempts attempts failed.
RetriesBeneathBreaker ==
  (s3.last.op = "upload" /\ s3.last.invoked /\ Len(s3.last.answers) = MaxAttempts) =>
    /\ (\E i \in 1..MaxAttempts : s3.last.answers[i] = "ok") => s3.last.out = "ok"
    /\ s3.last.out # "ok" => s3.last.attempts = MaxAttempts

NoOrphanObjects ==
  upload.pc = "done" => upload.objects \subseteq upload.refs

\* C29: an upload_file or delete_file on one key changes neither what
\* get_file_content nor what get_metadata returns for any different key.
OtherKeysUntouched ==
  [][\A k \in LocalKeys :
       (local' # local /\ local'.last.key = k) =>
         \A j \in LocalKeys \ {k} :
           /\ GetFileContent(j)' = GetFileContent(j)
           /\ GetMetadata(j)' = GetMetadata(j)]_vars

\* C30: a process_file call on a file the processor can read from its
\* storage, which is valid and whose steps end in time, returns COMPLETED,
\* whatever the earlier calls of the same processor instance returned.
ResultDependsOnlyOnFile ==
  (/\ proc.last.status # "none"
   /\ proc.last.sound
   /\ ReadKey(proc.backend, proc.last.stored, proc.last.loc) # <<>>) =>
    proc.last.status = "COMPLETED"

====
